---- MODULE Spec2Model ----
(***************************************************************************)
(* The streaming client of persona-graph (the App component and the        *)
(* useProfileCache hook): the WebSocket connection manager with its        *)
(* reconnection backoff, the message handlers that fold inbound frames     *)
(* into the streaming profile, the localStorage request cache and the      *)
(* submission controller with its readiness wait.                          *)
(*                                                                         *)
(* Every browser task (a socket event, a timer callback, a user event) is  *)
(* one action; a promise continuation runs in the step that settles the    *)
(* promise.  JavaScript values are records: null is Null, a string value   *)
(* s is [v |-> s]; form strings are sequences of characters so that        *)
(* trim() and toLowerCase() can be computed.                               *)
(***************************************************************************)
EXTENDS Integers, Sequences, FiniteSets, TLC

\* ------------------------------------------------------------------ bounds
\* Caps on the sockets created, the submissions made, the frames delivered,
\* the clock advances and the polls re-armed by one readiness wait in one run,
\* and on their sum.
MaxSockets == 4
MaxSubmits == 2
MaxFrames == 3
MaxTicks == 1
MaxPolls == 1
MaxWork == 5
\* The longest name of a descriptor handed to the cache on its own.
MaxLen == 2

\* ------------------------------------------------------- program constants
maxReconnectDelay == 5000
baseReconnectDelay == 1000
WS_CONNECT_TIMEOUT == 5000
POLL_INTERVAL == 100
CACHE_EXPIRY == 24 * 60 * 60 * 1000

\* -------------------------------------------------------------- JS values
Null == [null |-> TRUE]
Str(s) == [v |-> s]

ErrBackend == Str("Cannot connect to server - please check if the backend is running")
ErrCreate == Str("Cannot connect to server - please check if the backend is running on port 5000")
ErrConnection == Str("Connection error - please check if the backend is running on port 5000")
ErrTimedOut == Str("Connection attempt timed out - please check if the backend is running")
ErrLimitedDefault == Str("Profile generated with some limitations: Some components failed to complete.")
ErrLimitedMessage == Str("Profile generated with some limitations: partial data only")
ErrServer == Str("enrichment failed")

\* The stage keys the progress display knows (a sample of the six).
Nodes == {"planner_supervisor_node", "background_agent_node"}

\* ------------------------------------------------------------ form strings
\* A string is a sequence of characters.
WhiteSpace == {" ", "\t"}

IsSpace(c) == c \in WhiteSpace

lowerOf(c) == IF c = "A" THEN "a" ELSE IF c = "B" THEN "b" ELSE c

toLowerCase(s) == [i \in 1..Len(s) |-> lowerOf(s[i])]

RECURSIVE trimStart(_)
trimStart(s) == IF s # <<>> /\ IsSpace(Head(s)) THEN trimStart(Tail(s)) ELSE s

RECURSIVE trimEnd(_)
trimEnd(s) ==
  IF s # <<>> /\ IsSpace(s[Len(s)]) THEN trimEnd(SubSeq(s, 1, Len(s) - 1)) ELSE s

\* trim that leaves the trailing white space.
trimStartOnly(s) == trimStart(s)

trim(s) == trimEnd(trimStart(s))

MkForm(name, summary) ==
  [name |-> name, title |-> <<>>, company |-> <<>>, summary |-> summary,
   linkedin |-> <<>>, llm |-> "gemini", searchEngine |-> "duckduckgo"]

InitialForm == MkForm(<<>>, <<>>)

\* The forms the user types: one with a name and a summary, and one with
\* blanks in these two fields.
Forms == {MkForm(<<"A", "b">>, <<"a">>), MkForm(<<" ">>, <<" ">>)}

\* The name and summary inputs are `required`: the browser submits the form
\* only when both are non-empty.
Submittable(f) == f.name # <<>> /\ f.summary # <<>>

\* JSON.stringify of the key object: a sequence of pieces whose concatenation
\* is the JSON text.
escape(c) ==
  IF c = "\"" THEN "\\\"" ELSE IF c = "\\" THEN "\\\\" ELSE IF c = "\t" THEN "\\t" ELSE c

stringifyString(s) == <<"\"">> \o [i \in 1..Len(s) |-> escape(s[i])] \o <<"\"">>

stringifyMember(key, text) == <<"\"", key, "\"", ":">> \o text

relevantData(formData) ==
  [name |-> toLowerCase(trim(formData.name)),
   title |-> toLowerCase(trim(formData.title)),
   company |-> toLowerCase(trim(formData.company)),
   summary |-> toLowerCase(trim(formData.summary)),
   linkedin |-> toLowerCase(trim(formData.linkedin)),
   llm |-> formData.llm,
   searchEngine |-> formData.searchEngine]

JSONstringify(data) ==
  <<"{">> \o stringifyMember("name", stringifyString(data.name))
    \o <<",">> \o stringifyMember("title", stringifyString(data.title))
    \o <<",">> \o stringifyMember("company", stringifyString(data.company))
    \o <<",">> \o stringifyMember("summary", stringifyString(data.summary))
    \o <<",">> \o stringifyMember("linkedin", stringifyString(data.linkedin))
    \o <<",">> \o stringifyMember("llm", <<"\"", data.llm, "\"">>)
    \o <<",">> \o stringifyMember("searchEngine", <<"\"", data.searchEngine, "\"">>)
    \o <<"}">>

generateCacheKey(formData) == JSONstringify(relevantData(formData))


\* ------------------------------------------------------------------ state
VARIABLES
  lifecycle,             \* "rendered" | "mounted" | "unmounted" (the effect and its cleanup)
  isSubscribed,          \* the effect's flag
  closureForm,           \* the form the effect's closures captured
  wsRef,                 \* wsRef.current: 0 (null) or the index of a socket
  sockets,               \* every WebSocket created: readyState, and whether it ever opened
  wsState,               \* ConnectionState
  timers,                \* the pending setTimeout callbacks
  reconnectTimeoutRef,   \* reconnectTimeoutRef.current
  connectionTimeoutRef,  \* connectionTimeoutRef.current
  reconnectAttemptsRef,  \* reconnectAttemptsRef.current
  form, loading, result, error, progress,
  streamingResult, currentNode, completedNodes,
  isCacheHit,
  localStorage,          \* the stored items: cache key -> [data, timestamp]
  now, ticks,            \* Date.now() in ms, and how often it has advanced
  frames,                \* how many message events have been dispatched
  subs,                  \* one record per handleSubmit call
  sent                   \* the enrich frames sent, in order

connVars == <<wsRef, sockets, wsState, timers, reconnectTimeoutRef,
              connectionTimeoutRef, reconnectAttemptsRef>>
aggVars == <<progress, streamingResult, currentNode, completedNodes>>
uiVars == <<loading, result, error, progress, streamingResult, currentNode,
            completedNodes>>
vars == <<lifecycle, isSubscribed, closureForm, wsRef, sockets, wsState, timers,
          reconnectTimeoutRef, connectionTimeoutRef, reconnectAttemptsRef,
          form, loading, result, error, progress, streamingResult, currentNode,
          completedNodes, isCacheHit, localStorage, now, ticks, frames, subs,
          sent>>

\* What a run has used of its bounds.
RECURSIVE Polls(_)
Polls(waits) == IF waits = <<>> THEN 0 ELSE Head(waits).polls + Polls(Tail(waits))

Work == Len(sockets) + Len(subs) + frames + ticks + Polls(subs)

EmptyStreamingResult ==
  [basic_info |-> Null, background_info |-> Null, leadership_info |-> Null,
   reputation_info |-> Null, strategy_info |-> Null, aggregated_profile |-> Null,
   metadata |-> [list |-> <<>>], isComplete |-> FALSE]

Init ==
  /\ lifecycle = "rendered"
  /\ isSubscribed = FALSE
  /\ closureForm = InitialForm
  /\ wsRef = 0
  /\ sockets = <<>>
  /\ wsState = "disconnected"
  /\ timers = {}
  /\ reconnectTimeoutRef = Null
  /\ connectionTimeoutRef = Null
  /\ reconnectAttemptsRef = 0
  /\ form = InitialForm
  /\ loading = FALSE
  /\ result = Null
  /\ error = Null
  /\ progress = <<>>
  /\ streamingResult = EmptyStreamingResult
  /\ currentNode = Null
  /\ completedNodes = <<>>
  /\ isCacheHit = FALSE
  /\ localStorage = <<>>
  /\ now = 0
  /\ ticks = 0
  /\ frames = 0
  /\ subs = <<>>
  /\ sent = <<>>

\* ------------------------------------------------------ sockets and timers
Timer(kind, owner, delay) == [kind |-> kind, owner |-> owner, delay |-> delay]

\* clearTimeout that cancels nothing.
clearTimeoutLost(pending, handle) == pending

\* clearTimeout(ref.current) on a set of pending timers; the refs are never
\* reset, so the handle may name a timer that has fired already.
clearTimeout(pending, handle) == pending \ {handle}

readyStateOf(s) == IF s = 0 THEN "NONE" ELSE sockets[s].readyState

\* ws.close(): starts the closing handshake of a socket that is not yet closing.
closeSocket(socks, s) ==
  IF socks[s].readyState \in {"CONNECTING", "OPEN"}
  THEN [socks EXCEPT ![s].readyState = "CLOSING"]
  ELSE socks

Min(a, b) == IF a < b THEN a ELSE b

reconnectDelayUncapped(attempts) == baseReconnectDelay * 2 ^ attempts

reconnectDelay(attempts) ==
  Min(maxReconnectDelay, baseReconnectDelay * 2 ^ attempts)


\* ------------------------------------------------------ Connection Manager
\* connectWebSocket(), called with the timers left pending by its caller.
\* `throws` is the environment's choice of `new WebSocket(...)` throwing.
connectWebSocket(pending, subscribed, throws) ==
  IF readyStateOf(wsRef) \in {"OPEN", "CONNECTING"}
  THEN /\ timers' = pending
       /\ UNCHANGED <<wsRef, sockets, wsState, connectionTimeoutRef, error>>
  ELSE IF throws
  THEN /\ wsState' = (IF subscribed THEN "disconnected" ELSE "connecting")
       /\ error' = (IF subscribed THEN ErrCreate ELSE error)
       /\ timers' = pending
       /\ UNCHANGED <<wsRef, sockets, connectionTimeoutRef>>
  ELSE /\ Len(sockets) < MaxSockets
       /\ Work < MaxWork
       /\ wsState' = "connecting"
       /\ sockets' = Append(sockets, [readyState |-> "CONNECTING", opened |-> FALSE])
       /\ connectionTimeoutRef' =
            Timer("connection", Len(sockets) + 1, WS_CONNECT_TIMEOUT)
       /\ timers' = pending \cup {connectionTimeoutRef'}
       /\ wsRef' = Len(sockets) + 1
       /\ UNCHANGED error

\* The effect body: declare isSubscribed, build the handlers, connect.
Mount ==
  /\ lifecycle = "rendered"
  /\ lifecycle' = "mounted"
  /\ isSubscribed' = TRUE
  /\ closureForm' = form
  /\ \E throws \in BOOLEAN : connectWebSocket(timers, TRUE, throws)
  /\ UNCHANGED <<reconnectTimeoutRef, reconnectAttemptsRef, form, loading, result,
                 progress, streamingResult, currentNode, completedNodes,
                 isCacheHit, localStorage, now, ticks, frames, subs, sent>>

\* ConnectionTimeout, retrying at once instead of leaving it to onclose.
ConnectionTimeoutRetry(t) ==
  /\ t \in timers
  /\ t.kind = "connection"
  /\ IF sockets[t.owner].readyState # "OPEN"
     THEN /\ Len(sockets) < MaxSockets
          /\ Work < MaxWork
          /\ sockets' = Append(closeSocket(sockets, t.owner),
                               [readyState |-> "CONNECTING", opened |-> FALSE])
          /\ error' = (IF isSubscribed THEN ErrBackend ELSE error)
          /\ wsState' = "connecting"
          /\ wsRef' = Len(sockets) + 1
          /\ connectionTimeoutRef' =
               Timer("connection", Len(sockets) + 1, WS_CONNECT_TIMEOUT)
          /\ timers' = (timers \ {t}) \cup {connectionTimeoutRef'}
     ELSE /\ timers' = timers \ {t}
          /\ UNCHANGED <<sockets, error, wsState, wsRef, connectionTimeoutRef>>
  /\ UNCHANGED <<lifecycle, isSubscribed, closureForm, reconnectTimeoutRef,
                 reconnectAttemptsRef, form, loading, result,
                 progress, streamingResult, currentNode, completedNodes,
                 isCacheHit, localStorage, now, ticks, frames, subs, sent>>

\* The connection-establishment timer of socket t.owner fires.
ConnectionTimeout(t) ==
  /\ t \in timers
  /\ t.kind = "connection"
  /\ timers' = timers \ {t}
  /\ IF sockets[t.owner].readyState # "OPEN"
     THEN /\ sockets' = closeSocket(sockets, t.owner)
          /\ error' = (IF isSubscribed THEN ErrBackend ELSE error)
          /\ wsState' = (IF isSubscribed THEN "disconnected" ELSE wsState)
     ELSE UNCHANGED <<sockets, error, wsState>>
  /\ UNCHANGED <<lifecycle, isSubscribed, closureForm, wsRef, reconnectTimeoutRef,
                 connectionTimeoutRef, reconnectAttemptsRef, form, loading, result,
                 progress, streamingResult, currentNode, completedNodes,
                 isCacheHit, localStorage, now, ticks, frames, subs, sent>>

\* ws.onopen that leaves the connection timer armed.
OnOpenKeepTimer(s) ==
  /\ s \in DOMAIN sockets
  /\ sockets[s].readyState = "CONNECTING"
  /\ sockets' = [sockets EXCEPT ![s] = [readyState |-> "OPEN", opened |-> TRUE]]
  /\ wsState' = (IF isSubscribed THEN "connected" ELSE wsState)
  /\ error' = (IF isSubscribed THEN Null ELSE error)
  /\ reconnectAttemptsRef' = (IF isSubscribed THEN 0 ELSE reconnectAttemptsRef)
  /\ UNCHANGED <<lifecycle, isSubscribed, closureForm, wsRef, reconnectTimeoutRef,
                 connectionTimeoutRef, form, loading, result, timers,
                 progress, streamingResult, currentNode, completedNodes,
                 isCacheHit, localStorage, now, ticks, frames, subs, sent>>

\* ws.onopen of socket s.
OnOpen(s) ==
  /\ s \in DOMAIN sockets
  /\ sockets[s].readyState = "CONNECTING"
  /\ sockets' = [sockets EXCEPT ![s] = [readyState |-> "OPEN", opened |-> TRUE]]
  /\ wsState' = (IF isSubscribed THEN "connected" ELSE wsState)
  /\ error' = (IF isSubscribed THEN Null ELSE error)
  /\ reconnectAttemptsRef' = (IF isSubscribed THEN 0 ELSE reconnectAttemptsRef)
  /\ timers' = (IF connectionTimeoutRef # Null
                THEN clearTimeout(timers, connectionTimeoutRef) ELSE timers)
  /\ UNCHANGED <<lifecycle, isSubscribed, closureForm, wsRef, reconnectTimeoutRef,
                 connectionTimeoutRef, form, loading, result,
                 progress, streamingResult, currentNode, completedNodes,
                 isCacheHit, localStorage, now, ticks, frames, subs, sent>>

\* The server starts the closing handshake: readyState is CLOSING until the
\* close event is dispatched.
SocketClosing(s) ==
  /\ s \in DOMAIN sockets
  /\ sockets[s].readyState = "OPEN"
  /\ sockets' = [sockets EXCEPT ![s].readyState = "CLOSING"]
  /\ UNCHANGED <<lifecycle, isSubscribed, closureForm, wsRef, wsState, timers,
                 reconnectTimeoutRef, connectionTimeoutRef, reconnectAttemptsRef,
                 form, loading, result, error, progress, streamingResult,
                 currentNode, completedNodes, isCacheHit, localStorage, now, ticks, frames,
                 subs, sent>>

\* onclose without its isSubscribed guard.
oncloseUnguarded(s) ==
  /\ sockets' = [sockets EXCEPT ![s].readyState = "CLOSED"]
  /\ wsState' = "disconnected"
  /\ wsRef' = 0
  /\ reconnectTimeoutRef' =
       Timer("reconnect", s, reconnectDelay(reconnectAttemptsRef))
  /\ timers' = (IF connectionTimeoutRef # Null
                THEN clearTimeout(timers \cup {reconnectTimeoutRef'},
                                  connectionTimeoutRef)
                ELSE timers \cup {reconnectTimeoutRef'})

\* onclose without its setWsState('disconnected').
oncloseKeepState(s) ==
  /\ sockets' = [sockets EXCEPT ![s].readyState = "CLOSED"]
  /\ IF isSubscribed
     THEN /\ wsState' = wsState
          /\ wsRef' = 0
          /\ reconnectTimeoutRef' =
               Timer("reconnect", s, reconnectDelay(reconnectAttemptsRef))
          /\ timers' = (IF connectionTimeoutRef # Null
                        THEN clearTimeout(timers \cup {reconnectTimeoutRef'},
                                          connectionTimeoutRef)
                        ELSE timers \cup {reconnectTimeoutRef'})
     ELSE /\ timers' = (IF connectionTimeoutRef # Null
                        THEN clearTimeout(timers, connectionTimeoutRef) ELSE timers)
          /\ UNCHANGED <<wsState, wsRef, reconnectTimeoutRef>>

\* ws.onclose of socket s (its readyState is CLOSED when the handler runs).
onclose(s) ==
  /\ sockets' = [sockets EXCEPT ![s].readyState = "CLOSED"]
  /\ IF isSubscribed
     THEN /\ wsState' = "disconnected"
          /\ wsRef' = 0
          /\ reconnectTimeoutRef' =
               Timer("reconnect", s, reconnectDelay(reconnectAttemptsRef))
          /\ timers' = (IF connectionTimeoutRef # Null
                        THEN clearTimeout(timers \cup {reconnectTimeoutRef'},
                                          connectionTimeoutRef)
                        ELSE timers \cup {reconnectTimeoutRef'})
     ELSE /\ timers' = (IF connectionTimeoutRef # Null
                        THEN clearTimeout(timers, connectionTimeoutRef) ELSE timers)
          /\ UNCHANGED <<wsState, wsRef, reconnectTimeoutRef>>

\* ws.onerror.
onerror ==
  /\ error' = (IF isSubscribed THEN ErrConnection ELSE error)
  /\ loading' = (IF isSubscribed THEN FALSE ELSE loading)

\* The connection of socket s fails: the error event, then the close event,
\* are dispatched in one task.
SocketFail(s) ==
  /\ s \in DOMAIN sockets
  /\ sockets[s].readyState \in {"CONNECTING", "OPEN", "CLOSING"}
  /\ onerror
  /\ onclose(s)
  /\ UNCHANGED <<lifecycle, isSubscribed, closureForm, connectionTimeoutRef,
                 reconnectAttemptsRef, form, result, progress, streamingResult,
                 currentNode, completedNodes, isCacheHit, localStorage, now, ticks, frames,
                 subs, sent>>

\* The connection of an opened socket s closes cleanly: the close event alone.
SocketClose(s) ==
  /\ s \in DOMAIN sockets
  /\ sockets[s].readyState \in {"OPEN", "CLOSING"}
  /\ sockets[s].opened
  /\ onclose(s)
  /\ UNCHANGED <<lifecycle, isSubscribed, closureForm, connectionTimeoutRef,
                 reconnectAttemptsRef, form, loading, result, error, progress,
                 streamingResult, currentNode, completedNodes, isCacheHit,
                 localStorage, now, ticks, frames, subs, sent>>

\* The reconnect timer t fires.
ReconnectTimeout(t) ==
  /\ t \in timers
  /\ t.kind = "reconnect"
  /\ reconnectAttemptsRef' = reconnectAttemptsRef + 1
  /\ IF isSubscribed
     THEN \E throws \in BOOLEAN : connectWebSocket(timers \ {t}, isSubscribed, throws)
     ELSE /\ timers' = timers \ {t}
          /\ UNCHANGED <<wsRef, sockets, wsState, connectionTimeoutRef, error>>
  /\ UNCHANGED <<lifecycle, isSubscribed, closureForm, reconnectTimeoutRef,
                 form, loading, result, progress, streamingResult, currentNode,
                 completedNodes, isCacheHit, localStorage, now, ticks, frames, subs, sent>>

\* The effect's cleanup, run when the component unmounts.
Teardown ==
  /\ lifecycle = "mounted"
  /\ lifecycle' = "unmounted"
  /\ isSubscribed' = FALSE
  /\ wsRef' = 0
  /\ sockets' = (IF wsRef # 0 THEN closeSocket(sockets, wsRef) ELSE sockets)
  /\ timers' = clearTimeout(clearTimeout(timers, reconnectTimeoutRef),
                             connectionTimeoutRef)
  /\ UNCHANGED <<closureForm, wsState, reconnectTimeoutRef, connectionTimeoutRef,
                 reconnectAttemptsRef, form, loading, result, error, progress,
                 streamingResult, currentNode, completedNodes, isCacheHit,
                 localStorage, now, ticks, frames, subs, sent>>


\* ----------------------------------------------------------- Request Cache
\* localStorage is a function from the keys that hold an item to the items.
\* An item stands for its text as JSON.parse sees it: the record of the
\* members of an object (setCachedResult writes {data, timestamp}; the
\* payloads come out of JSON.parse, so parsing the text gives them back),
\* [literal |-> t] for the JSON text t of a value that is no object, and
\* [text |-> t] for a text t that is not JSON.
Undefined == [undefined |-> TRUE]

EmptyText == [text |-> ""]

JSONnull == [literal |-> "null"]

getItem(store, key) == IF key \in DOMAIN store THEN store[key] ELSE Null

setItem(store, key, item) ==
  [k \in DOMAIN store \cup {key} |-> IF k = key THEN item ELSE store[k]]

removeItem(store, key) == [k \in DOMAIN store \ {key} |-> store[k]]

\* `if (cached)` passes and JSON.parse(cached) returns.
parses(cached) == cached # Null /\ cached # EmptyText /\ "text" \notin DOMAIN cached

\* const { data, timestamp } = ...: throws on null, gives undefined for a
\* member the value does not have.
destructures(cached) == cached # JSONnull

member(cached, name) == IF name \in DOMAIN cached THEN cached[name] ELSE Undefined

\* The truth test of `if (cachedResult)` and `!!cachedResult` without its
\* case for undefined.
TruthyDefined(v) == v # Null

\* The truth test of `if (cachedResult)` and `!!cachedResult` (the payloads
\* are objects and non-empty strings).
Truthy(v) == v # Null /\ v # Undefined

\* getCachedResult: the value returned, and the store it leaves behind.
\* cacheHit that finds nothing.
cacheHitNever(store, cacheKey) == FALSE

\* Line 24 is reached and its test passes (a missing timestamp makes the
\* difference NaN, and NaN < CACHE_EXPIRY is false).
cacheHit(store, cacheKey) ==
  /\ parses(getItem(store, cacheKey))
  /\ destructures(getItem(store, cacheKey))
  /\ "timestamp" \in DOMAIN getItem(store, cacheKey)
  /\ now - getItem(store, cacheKey).timestamp < CACHE_EXPIRY

getCachedResult(store, cacheKey) ==
  IF cacheHit(store, cacheKey) THEN member(getItem(store, cacheKey), "data") ELSE Null

\* getCachedResult that leaves an expired item in place.
afterGetCachedResultKeep(store, cacheKey) == store

\* removeItem is reached when the test of line 24 fails; an exception of
\* line 23 skips it.
afterGetCachedResult(store, cacheKey) ==
  IF /\ parses(getItem(store, cacheKey))
     /\ destructures(getItem(store, cacheKey))
     /\ ~cacheHit(store, cacheKey)
  THEN removeItem(store, cacheKey)
  ELSE store

setCachedResult(store, cacheKey, data) ==
  setItem(store, cacheKey, [data |-> data, timestamp |-> now])

checkCache(store, formData) == getCachedResult(store, generateCacheKey(formData))

updateCache(store, formData, data) ==
  setCachedResult(store, generateCacheKey(formData), data)

\* ------------------------------------------------------ Streaming Aggregator
\* The payloads the backend sends.
PartialPayloads ==
  {[background_info |-> Str("bg1")],
   [background_info |-> Str("bg2"), leadership_info |-> Str("lead1")]}

FullProfile == [aggregated_profile |-> Str("full")]

LimitedProfile ==
  [aggregated_profile |-> Str("partial"),
   execution_summary |-> [failed_agents |-> <<"background_agent_node">>],
   user_message |-> Str("partial data only")]

FinalPayloads == {FullProfile, LimitedProfile}

\* The spread in the other order, {...data, ...prev}: the fields held win.
spreadReversed(prev, data) ==
  [f \in DOMAIN prev \cup DOMAIN data |-> IF f \in DOMAIN prev THEN prev[f] ELSE data[f]]

\* {...prev, ...data}
spread(prev, data) ==
  [f \in DOMAIN prev \cup DOMAIN data |-> IF f \in DOMAIN data THEN data[f] ELSE prev[f]]

\* The advisory test without the look at the list of failed agents.
hasFailedAgentsAny(data) == "execution_summary" \in DOMAIN data

hasFailedAgents(data) ==
  /\ "execution_summary" \in DOMAIN data
  /\ "failed_agents" \in DOMAIN data.execution_summary
  /\ Len(data.execution_summary.failed_agents) > 0

limitationsMessage(data) ==
  IF "user_message" \in DOMAIN data THEN ErrLimitedMessage ELSE ErrLimitedDefault

LogText(data) == [text |-> data]
LogStart(node) == [starting |-> node]
LogFailed(node, err) == [failed |-> node, error |-> err]
LogCompleted(node) == [completed |-> node]

handlerVars == <<loading, result, error, progress, streamingResult, currentNode,
                 completedNodes, localStorage>>

progressHandler(data) ==
  IF ~isSubscribed THEN UNCHANGED handlerVars ELSE
       /\ progress' = Append(progress, LogText(data))
       /\ error' = Null
       /\ UNCHANGED <<loading, result, streamingResult, currentNode, completedNodes,
                      localStorage>>

\* node_start that writes its line to the log and records no current stage.
node_startLogOnly(data) ==
  IF ~isSubscribed THEN UNCHANGED handlerVars ELSE
       /\ progress' = Append(progress, LogStart(data.node))
       /\ UNCHANGED <<loading, result, error, streamingResult, currentNode,
                      completedNodes, localStorage>>

node_start(data) ==
  IF ~isSubscribed THEN UNCHANGED handlerVars ELSE
       /\ currentNode' = [node |-> data.node]
       /\ progress' = Append(progress, LogStart(data.node))
       /\ UNCHANGED <<loading, result, error, streamingResult, completedNodes,
                      localStorage>>

\* node_error treated as the error handler treats a failure.
node_errorFatal(data) ==
  IF ~isSubscribed THEN UNCHANGED handlerVars ELSE
       /\ progress' = Append(progress, LogFailed(data.node, data.error))
       /\ error' = Str(data.error)
       /\ loading' = FALSE
       /\ UNCHANGED <<result, streamingResult, currentNode, completedNodes,
                      localStorage>>

node_error(data) ==
  IF ~isSubscribed THEN UNCHANGED handlerVars ELSE
       /\ progress' = Append(progress, LogFailed(data.node, data.error))
       /\ UNCHANGED <<loading, result, error, streamingResult, currentNode,
                      completedNodes, localStorage>>

\* An updater that appends the payload to the reference list as well.
partialUpdaterAppending(prev, data) ==
  [spread(prev, data) EXCEPT !.isComplete = FALSE,
                             !.metadata = [list |-> Append(prev.metadata.list, data)]]

\* prev => ({...prev, ...data, isComplete: false})
partialUpdater(prev, data) == [spread(prev, data) EXCEPT !.isComplete = FALSE]

partial_result(data) ==
  IF ~isSubscribed THEN UNCHANGED handlerVars ELSE
       /\ streamingResult' = partialUpdater(streamingResult, data)
       /\ UNCHANGED <<loading, result, error, progress, currentNode, completedNodes,
                      localStorage>>

node_complete(data) ==
  IF ~isSubscribed THEN UNCHANGED handlerVars ELSE
       /\ completedNodes' = Append(completedNodes, data.node)
       /\ progress' = Append(progress, LogCompleted(data.node))
       /\ UNCHANGED <<loading, result, error, streamingResult, currentNode,
                      localStorage>>

final_result(data) ==
  IF ~isSubscribed THEN UNCHANGED handlerVars ELSE
       /\ result' = data
       /\ streamingResult' = [spread(streamingResult, data) EXCEPT !.isComplete = TRUE]
       /\ localStorage' = updateCache(localStorage, closureForm, data)
       /\ loading' = FALSE
       /\ currentNode' = Null
       /\ error' = (IF hasFailedAgents(data) THEN limitationsMessage(data) ELSE Null)
       /\ UNCHANGED <<progress, completedNodes>>

resultHandler(data) ==
  IF ~isSubscribed THEN UNCHANGED handlerVars ELSE
       /\ result' = data
       /\ localStorage' = updateCache(localStorage, closureForm, data)
       /\ loading' = FALSE
       /\ error' = Null
       /\ UNCHANGED <<progress, streamingResult, currentNode, completedNodes>>

\* The error handler without its isSubscribed test.
errorHandlerUnguarded(data) ==
  /\ error' = data
  /\ loading' = FALSE
  /\ currentNode' = Null
  /\ UNCHANGED <<result, progress, streamingResult, completedNodes, localStorage>>

errorHandler(data) ==
  IF ~isSubscribed THEN UNCHANGED handlerVars ELSE
       /\ error' = data
       /\ loading' = FALSE
       /\ currentNode' = Null
       /\ UNCHANGED <<result, progress, streamingResult, completedNodes, localStorage>>

\* The status the progress display derives for a stage.
Includes(seq, x) == \E i \in DOMAIN seq : seq[i] = x

StageStatusCurrentFirst(completed, current, node) ==
  IF current = [node |-> node] THEN "running"
  ELSE IF Includes(completed, node) THEN "completed"
  ELSE "pending"

StageStatus(completed, current, node) ==
  IF Includes(completed, node) THEN "completed"
  ELSE IF current = [node |-> node] THEN "running"
  ELSE "pending"

\* The message events a socket delivers in answer to submission `sub`: `json`
\* says whether event.data is the JSON text of an object, `type` and `data`
\* are the members of that object.
Frames(sub) ==
  [json : {TRUE}, type : {"progress"}, data : {Str("searching")}, sub : {sub}]
  \cup [json : {TRUE}, type : {"node_start", "node_complete"}, data : [node : Nodes],
        sub : {sub}]
  \cup [json : {TRUE}, type : {"node_error"},
        data : [node : Nodes, error : {"timeout"}], sub : {sub}]
  \cup [json : {TRUE}, type : {"partial_result"}, data : PartialPayloads, sub : {sub}]
  \cup [json : {TRUE}, type : {"final_result"}, data : FinalPayloads, sub : {sub}]
  \cup [json : {TRUE}, type : {"result"}, data : {FullProfile}, sub : {sub}]
  \cup [json : {TRUE}, type : {"error"}, data : {ErrServer}, sub : {sub}]
  \cup [json : {TRUE}, type : {"heartbeat"}, data : {Str("searching")}, sub : {sub}]
  \cup [json : {FALSE}, type : {"progress"}, data : {Str("searching")}, sub : {sub}]

\* The keys of messageHandlers.
HandlerTypes == {"progress", "node_start", "node_error", "partial_result",
                 "node_complete", "final_result", "result", "error"}

\* messageHandlers[type](data)
dispatch(frame) ==
  CASE frame.type = "progress" -> progressHandler(frame.data)
    [] frame.type = "node_start" -> node_start(frame.data)
    [] frame.type = "node_error" -> node_error(frame.data)
    [] frame.type = "partial_result" -> partial_result(frame.data)
    [] frame.type = "node_complete" -> node_complete(frame.data)
    [] frame.type = "final_result" -> final_result(frame.data)
    [] frame.type = "result" -> resultHandler(frame.data)
    [] frame.type = "error" -> errorHandler(frame.data)

\* onmessage without its try/catch and its `if (handler)`: every event is
\* handed to the progress handler when no handler of its own is found.
onmessageUnchecked(frame) ==
  IF frame.json /\ frame.type \in HandlerTypes
  THEN dispatch(frame)
  ELSE progressHandler(frame.data)

\* ws.onmessage: JSON.parse throws on a text that is not JSON and the catch
\* drops the event; an event whose type has no handler is skipped.
onmessage(frame) ==
  IF ~frame.json THEN UNCHANGED handlerVars
  ELSE IF frame.type \notin HandlerTypes THEN UNCHANGED handlerVars
  ELSE dispatch(frame)

\* Whether the event is the final or plain result answering its submission.
IsAnswer(frame) == frame.json /\ frame.type \in {"final_result", "result"}

OnMessage(s, frame) ==
  /\ s \in DOMAIN sockets
  /\ sockets[s].readyState \in {"OPEN", "CLOSING"}
  /\ \E i \in DOMAIN sent : sent[i].sub = frame.sub /\ sent[i].sock = s
  /\ frames < MaxFrames
  /\ Work < MaxWork
  /\ frames' = frames + 1
  /\ onmessage(frame)
  /\ subs' = (IF IsAnswer(frame)
              THEN [subs EXCEPT ![frame.sub].answer = frame.data,
                                ![frame.sub].answeredAt = now]
              ELSE subs)
  /\ UNCHANGED <<lifecycle, isSubscribed, closureForm, wsRef, sockets, wsState,
                 timers, reconnectTimeoutRef, connectionTimeoutRef,
                 reconnectAttemptsRef, form, isCacheHit, now, ticks, sent>>


\* ---------------------------------------------------- Submission Controller
\* A handleSubmit call: the form and wsState of its closure, the state of its
\* readiness promise ("none" on a cache hit), how often its checkConnection
\* has re-armed its timer, and the final or plain result the backend has sent
\* in answer to it, with its arrival time.
Submission(f, seen, promise) ==
  [form |-> f, wsState |-> seen, promise |-> promise, polls |-> 0,
   answer |-> Null, answeredAt |-> 0]

Enrich(sub, sock, f) == [sub |-> sub, sock |-> sock, data |-> f]

ResetStreamingResult(f) ==
  [EmptyStreamingResult EXCEPT
     !.basic_info = [name |-> f.name, company |-> f.company, title |-> f.title,
                     linkedin_url |-> f.linkedin]]

\* handleSubmit up to its first suspension: the reset, the cache check and the
\* first connection check of ensureWebSocketConnection, with the continuation
\* of the await when the promise is settled at once.
HandleSubmit ==
  /\ lifecycle = "mounted"
  /\ ~loading
  /\ Submittable(form)
  /\ Len(subs) < MaxSubmits
  /\ Work < MaxWork
  /\ progress' = <<>>
  /\ streamingResult' = ResetStreamingResult(form)
  /\ currentNode' = Null
  /\ completedNodes' = <<>>
  /\ localStorage' = afterGetCachedResult(localStorage, generateCacheKey(form))
  /\ isCacheHit' = Truthy(checkCache(localStorage, form))
  /\ IF Truthy(checkCache(localStorage, form))
     THEN /\ result' = checkCache(localStorage, form)
          /\ loading' = FALSE
          /\ error' = Null
          /\ subs' = Append(subs, Submission(form, wsState, "none"))
          /\ UNCHANGED <<sent, timers>>
     ELSE IF readyStateOf(wsRef) = "OPEN"
     THEN /\ result' = Null
          /\ loading' = TRUE
          /\ error' = Null
          /\ subs' = Append(subs, Submission(form, wsState, "resolved"))
          /\ sent' = Append(sent, Enrich(Len(subs) + 1, wsRef, form))
          /\ UNCHANGED timers
     ELSE IF wsState = "disconnected"
     THEN /\ result' = Null
          /\ loading' = FALSE
          /\ error' = ErrBackend
          /\ subs' = Append(subs, Submission(form, wsState, "rejected"))
          /\ timers' = timers \cup {Timer("waitTimeout", Len(subs) + 1, WS_CONNECT_TIMEOUT)}
          /\ UNCHANGED sent
     ELSE /\ result' = Null
          /\ loading' = TRUE
          /\ error' = Null
          /\ subs' = Append(subs, Submission(form, wsState, "pending"))
          /\ timers' = timers \cup {Timer("waitTimeout", Len(subs) + 1, WS_CONNECT_TIMEOUT),
                                    Timer("poll", Len(subs) + 1, POLL_INTERVAL)}
          /\ UNCHANGED sent
  /\ UNCHANGED <<lifecycle, isSubscribed, closureForm, wsRef, sockets, wsState,
                 reconnectTimeoutRef, connectionTimeoutRef, reconnectAttemptsRef,
                 form, now, ticks, frames>>

\* checkConnection, run by its 100 ms timer, for submission t.owner.
CheckConnection(t) ==
  /\ t \in timers
  /\ t.kind = "poll"
  /\ IF readyStateOf(wsRef) = "OPEN"
     THEN /\ timers' = timers \ {t}
          /\ IF subs[t.owner].promise = "pending"
             THEN /\ subs' = [subs EXCEPT ![t.owner].promise = "resolved"]
                  /\ sent' = Append(sent, Enrich(t.owner, wsRef, subs[t.owner].form))
             ELSE UNCHANGED <<subs, sent>>
          /\ UNCHANGED <<error, loading>>
     ELSE IF subs[t.owner].wsState = "disconnected"
     THEN /\ timers' = timers \ {t}
          /\ IF subs[t.owner].promise = "pending"
             THEN /\ subs' = [subs EXCEPT ![t.owner].promise = "rejected"]
                  /\ error' = ErrBackend
                  /\ loading' = FALSE
             ELSE UNCHANGED <<subs, error, loading>>
          /\ UNCHANGED sent
     ELSE /\ subs[t.owner].polls < MaxPolls
          /\ Work < MaxWork
          /\ timers' = (timers \ {t}) \cup {Timer("poll", t.owner, POLL_INTERVAL)}
          /\ subs' = [subs EXCEPT ![t.owner].polls = @ + 1]
          /\ UNCHANGED <<sent, error, loading>>
  /\ UNCHANGED <<lifecycle, isSubscribed, closureForm, wsRef, sockets, wsState,
                 reconnectTimeoutRef, connectionTimeoutRef, reconnectAttemptsRef,
                 form, result, progress, streamingResult, currentNode,
                 completedNodes, isCacheHit, localStorage, now, ticks, frames>>

\* The timeout of the wait rejecting a promise that is resolved already.
WaitTimeoutLate(t) ==
  /\ t \in timers
  /\ t.kind = "waitTimeout"
  /\ timers' = timers \ {t}
  /\ IF subs[t.owner].promise \in {"pending", "resolved"}
     THEN /\ subs' = [subs EXCEPT ![t.owner].promise = "rejected"]
          /\ error' = ErrTimedOut
          /\ loading' = FALSE
     ELSE UNCHANGED <<subs, error, loading>>
  /\ UNCHANGED <<lifecycle, isSubscribed, closureForm, wsRef, sockets, wsState,
                 reconnectTimeoutRef, connectionTimeoutRef, reconnectAttemptsRef,
                 form, result, progress, streamingResult, currentNode,
                 completedNodes, isCacheHit, localStorage, now, ticks, frames, sent>>

\* The timeout of the readiness wait of submission t.owner fires.
WaitTimeout(t) ==
  /\ t \in timers
  /\ t.kind = "waitTimeout"
  /\ timers' = timers \ {t}
  /\ IF subs[t.owner].promise = "pending"
     THEN /\ subs' = [subs EXCEPT ![t.owner].promise = "rejected"]
          /\ error' = ErrTimedOut
          /\ loading' = FALSE
     ELSE UNCHANGED <<subs, error, loading>>
  /\ UNCHANGED <<lifecycle, isSubscribed, closureForm, wsRef, sockets, wsState,
                 reconnectTimeoutRef, connectionTimeoutRef, reconnectAttemptsRef,
                 form, result, progress, streamingResult, currentNode,
                 completedNodes, isCacheHit, localStorage, now, ticks, frames, sent>>

\* handleChange: the user edits the form.
HandleChange(f) ==
  /\ lifecycle = "mounted"
  /\ f # form
  /\ form' = f
  /\ UNCHANGED <<lifecycle, isSubscribed, closureForm, wsRef, sockets, wsState,
                 timers, reconnectTimeoutRef, connectionTimeoutRef,
                 reconnectAttemptsRef, loading, result, error, progress,
                 streamingResult, currentNode, completedNodes, isCacheHit,
                 localStorage, now, ticks, frames, subs, sent>>

\* Time passes between two tasks.
TickSteps == {CACHE_EXPIRY - 1, CACHE_EXPIRY + 1}

Tick(d) ==
  /\ ticks < MaxTicks
  /\ Work < MaxWork
  /\ now' = now + d
  /\ ticks' = ticks + 1
  /\ UNCHANGED frames
  /\ UNCHANGED <<lifecycle, isSubscribed, closureForm, wsRef, sockets, wsState,
                 timers, reconnectTimeoutRef, connectionTimeoutRef,
                 reconnectAttemptsRef, form, loading, result, error, progress,
                 streamingResult, currentNode, completedNodes, isCacheHit,
                 localStorage, subs, sent>>

\* ------------------------------------------------------------ specification

Next ==
  \/ Mount
  \/ Teardown
  \/ \E s \in 1..MaxSockets : OnOpen(s)
  \/ \E s \in 1..MaxSockets : SocketClosing(s)
  \/ \E s \in 1..MaxSockets : SocketFail(s)
  \/ \E s \in 1..MaxSockets : SocketClose(s)
  \/ \E t \in timers : ConnectionTimeout(t)
  \/ \E t \in timers : ReconnectTimeout(t)
  \/ \E s \in 1..MaxSockets : \E n \in 1..MaxSubmits : \E fr \in Frames(n) : OnMessage(s, fr)
  \/ HandleSubmit
  \/ \E t \in timers : CheckConnection(t)
  \/ \E t \in timers : WaitTimeout(t)
  \/ \E f \in Forms : HandleChange(f)
  \/ \E d \in TickSteps : Tick(d)

Spec == Init /\ [][Next]_vars

\* The cache hook on its own: updateCache and checkCache called with two
\* descriptors (kept in closureForm and form) drawn from KeyForms.
KeyChars == {" ", "a", "A"}

KeyStrings == UNION {[1..n -> KeyChars] : n \in 0..MaxLen}

KeyForms ==
  {[MkForm(name, <<"a">>) EXCEPT !.linkedin = linkedin, !.llm = llm] :
     name \in KeyStrings, linkedin \in {<<"B">>, <<"\t", "b">>},
     llm \in {"gemini", "openai"}}

KeyInit ==
  /\ form \in KeyForms
  /\ closureForm \in KeyForms
  /\ lifecycle = "rendered"
  /\ isSubscribed = FALSE
  /\ wsRef = 0
  /\ sockets = <<>>
  /\ wsState = "disconnected"
  /\ timers = {}
  /\ reconnectTimeoutRef = Null
  /\ connectionTimeoutRef = Null
  /\ reconnectAttemptsRef = 0
  /\ loading = FALSE
  /\ result = Null
  /\ error = Null
  /\ progress = <<>>
  /\ streamingResult = EmptyStreamingResult
  /\ currentNode = Null
  /\ completedNodes = <<>>
  /\ isCacheHit = FALSE
  /\ localStorage = <<>>
  /\ now = 0
  /\ ticks = 0
  /\ frames = 0
  /\ subs = <<>>
  /\ sent = <<>>

\* updateCache(closureForm, data)
CacheStore(data) ==
  /\ localStorage' = updateCache(localStorage, closureForm, data)
  /\ UNCHANGED <<lifecycle, isSubscribed, closureForm, wsRef, sockets, wsState,
                 timers, reconnectTimeoutRef, connectionTimeoutRef,
                 reconnectAttemptsRef, form, loading, result, error, progress,
                 streamingResult, currentNode, completedNodes, isCacheHit,
                 now, ticks, frames, subs, sent>>

\* checkCache(form), its value kept in result.
CacheLookup ==
  /\ result' = checkCache(localStorage, form)
  /\ isCacheHit' = Truthy(checkCache(localStorage, form))
  /\ localStorage' = afterGetCachedResult(localStorage, generateCacheKey(form))
  /\ UNCHANGED <<lifecycle, isSubscribed, closureForm, wsRef, sockets, wsState,
                 timers, reconnectTimeoutRef, connectionTimeoutRef,
                 reconnectAttemptsRef, form, loading, error, progress,
                 streamingResult, currentNode, completedNodes,
                 now, ticks, frames, subs, sent>>

KeyNext ==
  \/ \E data \in FinalPayloads : CacheStore(data)
  \/ CacheLookup

KeySpec == KeyInit /\ [][KeyNext]_vars

\* The message handlers on their own: the frames answering one submission,
\* from the state a cache-miss submission over an open socket leaves.
StreamInit ==
  /\ form \in Forms
  /\ closureForm = InitialForm
  /\ lifecycle = "mounted"
  /\ isSubscribed = TRUE
  /\ wsRef = 1
  /\ sockets = <<[readyState |-> "OPEN", opened |-> TRUE]>>
  /\ wsState = "connected"
  /\ timers = {}
  /\ reconnectTimeoutRef = Null
  /\ connectionTimeoutRef = Timer("connection", 1, WS_CONNECT_TIMEOUT)
  /\ reconnectAttemptsRef = 0
  /\ loading = TRUE
  /\ result = Null
  /\ error = Null
  /\ progress = <<>>
  /\ streamingResult = ResetStreamingResult(form)
  /\ currentNode = Null
  /\ completedNodes = <<>>
  /\ isCacheHit = FALSE
  /\ localStorage = <<>>
  /\ now = 0
  /\ ticks = 0
  /\ frames = 0
  /\ subs = <<Submission(form, "connected", "resolved")>>
  /\ sent = <<Enrich(1, 1, form)>>

\* Further final payloads: an execution summary that lists no failed agent,
\* one without the list, and one with a failed agent and no user message.
SummaryPayloads ==
  {[aggregated_profile |-> Str("full"), execution_summary |-> [failed_agents |-> <<>>]],
   [aggregated_profile |-> Str("full"), execution_summary |-> [total_agents |-> 5]],
   [aggregated_profile |-> Str("partial"),
    execution_summary |-> [failed_agents |-> <<"background_agent_node">>]]}

StreamFrames ==
  {fr \in Frames(1) : fr.json /\ fr.type \in HandlerTypes}
  \cup [json : {TRUE}, type : {"final_result"}, data : SummaryPayloads, sub : {1}]

StreamNext == \E fr \in StreamFrames : OnMessage(1, fr)

StreamSpec == StreamInit /\ [][StreamNext]_vars

\* The connection manager on its own, with the scheduling the browser
\* guarantees: the effect runs after the first render, an armed timer fires,
\* and a socket that is closing delivers its close event.
CloseEvent(s) ==
  /\ s \in DOMAIN sockets
  /\ sockets[s].readyState = "CLOSING"
  /\ SocketFail(s) \/ SocketClose(s)

ConnectionNext ==
  \/ Mount
  \/ Teardown
  \/ \E s \in 1..MaxSockets : OnOpen(s)
  \/ \E s \in 1..MaxSockets : SocketClosing(s)
  \/ \E s \in 1..MaxSockets : SocketFail(s)
  \/ \E s \in 1..MaxSockets : SocketClose(s)
  \/ \E t \in timers : ConnectionTimeout(t)
  \/ \E t \in timers : ReconnectTimeout(t)

ConnectionFairness ==
  /\ WF_vars(Mount)
  /\ WF_vars(\E t \in timers : ConnectionTimeout(t))
  /\ WF_vars(\E t \in timers : ReconnectTimeout(t))
  /\ WF_vars(\E s \in 1..MaxSockets : CloseEvent(s))

ConnectionSpec == Init /\ [][ConnectionNext]_vars /\ ConnectionFairness


\* A submission that finds an item left in localStorage before the page was
\* loaded: the item of the first form's key is one that setCachedResult wrote,
\* or a text that is not JSON, the empty text, or the JSON text of a value
\* without the members data and timestamp.
StoredItems ==
  {[text |-> "{\"data\":"], EmptyText, JSONnull, [literal |-> "5"],
   [other |-> 1], [data |-> FullProfile], [timestamp |-> 0],
   [data |-> FullProfile, timestamp |-> 0]}

StoredKey == generateCacheKey(MkForm(<<"A", "b">>, <<"a">>))

StoredInit ==
  /\ localStorage \in {<<>>} \cup {setItem(<<>>, StoredKey, item) : item \in StoredItems}
  /\ lifecycle = "rendered"
  /\ isSubscribed = FALSE
  /\ closureForm = InitialForm
  /\ wsRef = 0
  /\ sockets = <<>>
  /\ wsState = "disconnected"
  /\ timers = {}
  /\ reconnectTimeoutRef = Null
  /\ connectionTimeoutRef = Null
  /\ reconnectAttemptsRef = 0
  /\ form = InitialForm
  /\ loading = FALSE
  /\ result = Null
  /\ error = Null
  /\ progress = <<>>
  /\ streamingResult = EmptyStreamingResult
  /\ currentNode = Null
  /\ completedNodes = <<>>
  /\ isCacheHit = FALSE
  /\ now = 0
  /\ ticks = 0
  /\ frames = 0
  /\ subs = <<>>
  /\ sent = <<>>

StoredNext ==
  \/ Mount
  \/ \E s \in 1..MaxSockets : OnOpen(s)
  \/ \E s \in 1..MaxSockets : SocketFail(s)
  \/ \E t \in timers : ConnectionTimeout(t)
  \/ \E f \in Forms : HandleChange(f)
  \/ HandleSubmit
  \/ \E t \in timers : CheckConnection(t)
  \/ \E t \in timers : WaitTimeout(t)

StoredSpec == StoredInit /\ [][StoredNext]_vars


\* The submission controller with the connection manager, no frame arriving
\* and no time passing between the tasks, with the scheduling the browser
\* guarantees to the timers of a readiness wait: an armed timer fires.
WaitNext ==
  \/ Mount
  \/ Teardown
  \/ \E s \in 1..MaxSockets : OnOpen(s)
  \/ \E s \in 1..MaxSockets : SocketClosing(s)
  \/ \E s \in 1..MaxSockets : SocketFail(s)
  \/ \E s \in 1..MaxSockets : SocketClose(s)
  \/ \E t \in timers : ConnectionTimeout(t)
  \/ \E t \in timers : ReconnectTimeout(t)
  \/ \E f \in Forms : HandleChange(f)
  \/ HandleSubmit
  \/ \E t \in timers : CheckConnection(t)
  \/ \E t \in timers : WaitTimeout(t)

WaitFairness ==
  /\ WF_vars(\E t \in timers : CheckConnection(t))
  /\ WF_vars(\E t \in timers : WaitTimeout(t))

WaitSpec == Init /\ [][WaitNext]_vars /\ WaitFairness


\* ================================================================== claims
AllFrames == UNION {Frames(n) : n \in 1..MaxSubmits}

SameSubmission == Len(subs') = Len(subs)

ReconnectPending == \E t \in timers : t.kind = "reconnect"

LiveSockets == {s \in DOMAIN sockets : sockets[s].readyState \in {"CONNECTING", "OPEN"}}

\* C1: once the cleanup has run, no socket is created, no socket becomes open
\* and wsState keeps its value, whatever timer or socket callback runs next.
TeardownIsTerminal ==
  [][lifecycle = "unmounted" =>
       /\ lifecycle' = "unmounted"
       /\ wsState' = wsState
       /\ Len(sockets') = Len(sockets)
       /\ \A s \in DOMAIN sockets :
            sockets'[s].readyState = "OPEN" => sockets[s].readyState = "OPEN"]_vars

\* C1 witness: the close event of the socket closed by the cleanup was
\* dispatched after the cleanup (wsState still says connected).
TeardownThenCloseEvent ==
  /\ lifecycle = "unmounted"
  /\ wsState = "connected"
  /\ sockets # <<>>
  /\ \A s \in DOMAIN sockets : sockets[s].readyState = "CLOSED"

\* C2: at most one socket is opening or open, and while the stored socket is
\* open or opening no step creates a socket or arms a connection timer.
OneLiveSocket ==
  /\ [](Cardinality(LiveSockets) <= 1)
  /\ [][readyStateOf(wsRef) \in {"OPEN", "CONNECTING"} =>
          /\ Len(sockets') = Len(sockets)
          /\ {t \in timers' : t.kind = "connection"} \subseteq timers]_vars

\* C2 witness: a second socket is open after the first one was lost, and a
\* step was taken (a submission) while it was the stored socket.
SecondSocketOpenAndUsed ==
  /\ Len(sockets) >= 2
  /\ readyStateOf(wsRef) = "OPEN"
  /\ sockets[1].readyState = "CLOSED"
  /\ sent # <<>>

\* C3: a submission of a descriptor whose earlier cache-miss submission has
\* been answered less than 24 h ago puts the answer in result, sends no enrich
\* frame and starts no wait.
Answered(f) ==
  {i \in DOMAIN subs : /\ generateCacheKey(subs[i].form) = generateCacheKey(f)
                       /\ subs[i].answer # Null}

SecondSubmissionHitsCache ==
  [][\A i \in DOMAIN subs :
       (/\ Len(subs') = Len(subs) + 1
        /\ Answered(form) = {i}
        /\ subs[i].form = form
        /\ subs[i].promise # "none"
        /\ now - subs[i].answeredAt < CACHE_EXPIRY)
       => /\ result' = subs[i].answer
          /\ sent' = sent
          /\ subs'[Len(subs')].promise = "none"]_vars

\* C4: within one submission isComplete, once true, stays true.
IsCompleteNeverReverts ==
  [][streamingResult.isComplete /\ SameSubmission => streamingResult'.isComplete]_vars

\* C5: a node_error frame for a stage leaves that stage with the status failed.
StageErrorMarksFailed ==
  [][\A s \in 1..MaxSockets : \A fr \in AllFrames :
       (isSubscribed /\ fr.json /\ fr.type = "node_error" /\ OnMessage(s, fr))
       => StageStatus(completedNodes', currentNode', fr.data.node) = "failed"]_vars

\* C6: within one submission a completed (or failed) stage never shows as
\* pending or running again.
SettledStageStaysSettled ==
  [][\A n \in Nodes :
       (/\ SameSubmission
        /\ StageStatus(completedNodes, currentNode, n) \in {"completed", "failed"})
       => StageStatus(completedNodes', currentNode', n) \notin {"pending", "running"}]_vars

\* C6 witness: a node_start for a stage arrived after its node_complete.
StartAfterComplete ==
  \E n \in Nodes : Includes(completedNodes, n) /\ currentNode = [node |-> n]

\* C7: a frame answering a superseded submission changes nothing of the
\* current submission's profile, stage state, result and activity log.
StaleFrameIgnored ==
  [][\A s \in 1..MaxSockets : \A fr \in AllFrames :
       (fr.sub < Len(subs) /\ OnMessage(s, fr))
       => UNCHANGED <<streamingResult, currentNode, completedNodes, result,
                      progress>>]_vars

\* C8: a node_error frame only adds its line to the activity log (loading,
\* error, result, profile and stage state keep their values), and a
\* final_result frame sets isComplete and ends loading also when the log
\* holds a failure.
HasFailure(log) == \E i \in DOMAIN log : "failed" \in DOMAIN log[i]

StageErrorIsIsolated ==
  [][\A s \in DOMAIN sockets : \A fr \in AllFrames :
       (frames' # frames /\ isSubscribed /\ fr.json /\ OnMessage(s, fr))
       => /\ fr.type = "node_error" =>
               /\ UNCHANGED <<loading, error, result, streamingResult,
                              currentNode, completedNodes, localStorage>>
               /\ progress' = Append(progress, LogFailed(fr.data.node, fr.data.error))
          /\ fr.type = "final_result" =>
               /\ streamingResult'.isComplete
               /\ ~loading'
               /\ HasFailure(progress')  = HasFailure(progress)
          /\ (fr.type = "partial_result" /\ HasFailure(progress)) =>
               streamingResult' = [spread(streamingResult, fr.data) EXCEPT !.isComplete = FALSE]
          /\ (fr.type = "node_complete" /\ HasFailure(progress)) =>
               completedNodes' = Append(completedNodes, fr.data.node)]_vars

\* C8 witness: a stage failed, another stage completed after it, and the
\* final result then completed the profile.
FailureThenCompletion ==
  /\ Len(progress) = 2
  /\ "failed" \in DOMAIN progress[1]
  /\ "completed" \in DOMAIN progress[2]
  /\ progress[1].failed # progress[2].completed
  /\ streamingResult.isComplete
  /\ ~loading
  /\ result # Null

\* C9: the reconnect timer armed when socket s closes has the delay
\* min(5000, 1000 * 2^k), k being the number of sockets created since the last
\* one that opened (or since the first): 1000, 2000, 4000, 5000, 5000, ...
LastOpened(s) ==
  IF \E i \in 1..s : sockets[i].opened
  THEN CHOOSE i \in 1..s : sockets[i].opened /\ \A j \in (i + 1)..s : ~sockets[j].opened
  ELSE 1

BackoffDelay(k) ==
  IF k = 0 THEN 1000 ELSE IF k = 1 THEN 2000 ELSE IF k = 2 THEN 4000 ELSE 5000

ReconnectDelayIsBackoff ==
  \A t \in timers :
    t.kind = "reconnect" =>
      /\ t.delay = BackoffDelay(t.owner - LastOpened(t.owner))
      /\ t.delay <= maxReconnectDelay
      /\ sockets[t.owner].opened => t.delay = baseReconnectDelay

\* C9 witness: the fourth consecutive failure waits the capped 5000 ms.
FourthFailureCapped ==
  \E t \in timers :
    /\ t.kind = "reconnect"
    /\ t.owner - LastOpened(t.owner) = 3
    /\ t.delay = maxReconnectDelay

\* C10: the readiness wait is rejected with the not-connected error only when
\* wsState is disconnected and no reconnect is pending.
NotConnectedOnlyWhenDefinitive ==
  [][\A i \in DOMAIN subs' :
       (/\ i \in DOMAIN subs => subs[i].promise = "pending"
        /\ subs'[i].promise = "rejected"
        /\ error' = ErrBackend)
       => wsState = "disconnected" /\ ~ReconnectPending]_vars

\* C11: once the cleanup has run, a readiness wait re-arms no poll, sends no
\* frame and changes neither error nor loading.
WaitAbandonedAfterTeardown ==
  [][lifecycle = "unmounted" =>
       /\ \A i \in DOMAIN subs : subs'[i].polls = subs[i].polls
       /\ sent' = sent
       /\ error' = error
       /\ loading' = loading]_vars

\* C12: while the cleanup has not run, a state in which the stored socket is
\* not open is followed by the socket opening or by a new socket being created
\* (timers fire, closing sockets deliver their close event).
ReconnectionNeverStops ==
  \A n \in 0..(MaxSockets - 1) :
    (lifecycle # "unmounted" /\ readyStateOf(wsRef) # "OPEN" /\ Len(sockets) = n)
      ~> (lifecycle = "unmounted" \/ readyStateOf(wsRef) = "OPEN" \/ Len(sockets) > n)

\* C13: two descriptors have the same cache key exactly when their name,
\* title, company, summary and linkedin are equal once leading and trailing
\* white space is dropped and letters are lower-cased, and their llm and
\* searchEngine are identical; a lookup finds only what was stored for such a
\* descriptor.
Core(s) ==
  LET inked == {i \in 1..Len(s) : s[i] # " " /\ s[i] # "\t"}
  IN IF inked = {} THEN <<>>
     ELSE SubSeq(s, CHOOSE i \in inked : \A j \in inked : i <= j,
                    CHOOSE i \in inked : \A j \in inked : i >= j)

LowerCased(s) ==
  [i \in 1..Len(s) |-> CASE s[i] = "A" -> "a" [] s[i] = "B" -> "b" [] OTHER -> s[i]]

Normalized(s) == LowerCased(Core(s))

SameIdentity(a, b) ==
  /\ Normalized(a.name) = Normalized(b.name)
  /\ Normalized(a.title) = Normalized(b.title)
  /\ Normalized(a.company) = Normalized(b.company)
  /\ Normalized(a.summary) = Normalized(b.summary)
  /\ Normalized(a.linkedin) = Normalized(b.linkedin)
  /\ a.llm = b.llm
  /\ a.searchEngine = b.searchEngine

KeysEqualIffSameIdentity ==
  /\ (generateCacheKey(form) = generateCacheKey(closureForm))
       <=> SameIdentity(form, closureForm)
  /\ isCacheHit => SameIdentity(form, closureForm)

\* C13 witness: a lookup hit what was stored for a descriptor whose name and
\* linkedin differ in case and surrounding white space.
HitAcrossCaseAndBlanks ==
  /\ isCacheHit
  /\ result # Null
  /\ form.name # closureForm.name
  /\ form.linkedin # closureForm.linkedin

\* C14: an item holds the payload and the time of the latest store under its
\* key (a final or plain result stores its payload under the key of the
\* handlers' descriptor, nothing else writes an item); a lookup made less than
\* 24 h after that time returns the payload and leaves the item, a lookup made
\* later, or finding no item, returns a miss and leaves no item under the key.
Others(store, key) == [k \in DOMAIN store \ {key} |-> store[k]]

AnswerFrames == {fr \in AllFrames : IsAnswer(fr)}

LookupFollowsTTL ==
  [][/\ Len(subs') > Len(subs) =>
          LET key == generateCacheKey(form)
              item == getItem(localStorage, key)
          IN IF item # Null /\ now - item.timestamp < 24 * 60 * 60 * 1000
             THEN /\ result' = item.data
                  /\ isCacheHit'
                  /\ localStorage' = localStorage
             ELSE /\ result' = Null
                  /\ ~isCacheHit'
                  /\ key \notin DOMAIN localStorage'
                  /\ Others(localStorage', key) = Others(localStorage, key)
     /\ (frames' # frames /\ isSubscribed) =>
          \A s \in DOMAIN sockets : \A fr \in AnswerFrames :
            OnMessage(s, fr) =>
               LET key == generateCacheKey(closureForm)
               IN /\ getItem(localStorage', key) = [data |-> fr.data, timestamp |-> now]
                  /\ Others(localStorage', key) = Others(localStorage, key)
     /\ (Len(subs') = Len(subs) /\ localStorage' # localStorage) =>
          \E s \in DOMAIN sockets : \E fr \in AnswerFrames :
            isSubscribed /\ OnMessage(s, fr)]_vars

\* C14 witness: an answer was stored at time 0, and the second submission,
\* made for the same key 24 h + 1 ms later, missed and removed the item (only
\* an expired lookup removes an item, and the first submission came before
\* the store).
ExpiredEntryRemoved ==
  /\ Len(subs) = 2
  /\ subs[1].answer # Null
  /\ subs[1].answeredAt = 0
  /\ now = 24 * 60 * 60 * 1000 + 1
  /\ generateCacheKey(subs[2].form) = generateCacheKey(closureForm)
  /\ subs[2].promise # "none"
  /\ localStorage = <<>>

\* An answer stored at time 0 is found when 24 h - 1 ms have passed.
FreshEntryHit ==
  /\ Len(subs) = 2
  /\ subs[1].answer # Null
  /\ subs[1].answeredAt = 0
  /\ now = 24 * 60 * 60 * 1000 - 1
  /\ subs[2].promise = "none"
  /\ result = subs[1].answer
  /\ isCacheHit

\* C15: a submission whose descriptor has an item younger than 24 h puts the
\* item's payload in result and ends loading in the same call, sends no
\* frame, arms no timer of a readiness wait and leaves the connection as it
\* is, whatever wsState is.
CacheHitIsLocal ==
  [][Len(subs') > Len(subs) =>
       LET item == getItem(localStorage, generateCacheKey(form))
       IN (item # Null /\ now - item.timestamp < 24 * 60 * 60 * 1000) =>
            /\ result' = item.data
            /\ ~loading'
            /\ sent' = sent
            /\ timers' = timers
            /\ subs'[Len(subs')].promise = "none"
            /\ UNCHANGED <<wsRef, sockets, wsState>>]_vars

\* C15 witness: a submission made while wsState was disconnected was served
\* from the cache: one enrich frame only, no timer of a wait.
HitWhileDisconnected ==
  /\ Len(subs) = 2
  /\ subs[2].promise = "none"
  /\ subs[2].wsState = "disconnected"
  /\ result # Null
  /\ ~loading
  /\ Len(sent) = 1
  /\ \A t \in timers : t.kind \notin {"poll", "waitTimeout"}

HitWhileConnecting ==
  /\ Len(subs) = 2
  /\ subs[2].promise = "none"
  /\ subs[2].wsState = "connecting"
  /\ result # Null

HitWhileConnected ==
  /\ Len(subs) = 2
  /\ subs[2].promise = "none"
  /\ subs[2].wsState = "connected"
  /\ result # Null

\* The state a cache-miss submission over an open socket leaves.
AfterSubmission ==
  \E f \in Forms :
    /\ form = f
    /\ closureForm = InitialForm
    /\ lifecycle = "mounted"
    /\ wsRef = 1
    /\ sockets = <<[readyState |-> "OPEN", opened |-> TRUE]>>
    /\ wsState = "connected"
    /\ timers = {}
    /\ connectionTimeoutRef = Timer("connection", 1, WS_CONNECT_TIMEOUT)
    /\ loading
    /\ streamingResult = ResetStreamingResult(f)
    /\ localStorage = <<>>
    /\ now = 0
    /\ frames = 0
    /\ subs = <<Submission(f, "connected", "resolved")>>
    /\ sent = <<Enrich(1, 1, f)>>

\* C16: a partial_result leaves a profile on which the same payload, applied
\* once more, changes nothing.
PartialIsIdempotent ==
  [][\A fr \in StreamFrames :
       (fr.type = "partial_result" /\ OnMessage(1, fr))
       => partialUpdater(streamingResult', fr.data) = streamingResult']_vars

\* C16 witness: the first partial payload was applied twice in a row (two
\* frames, no trace of any other handler) and the profile is that of one
\* application.
SamePartialTwice ==
  /\ frames = 2
  /\ progress = <<>>
  /\ completedNodes = <<>>
  /\ currentNode = Null
  /\ result = Null
  /\ error = Null
  /\ loading
  /\ streamingResult =
       partialUpdater(ResetStreamingResult(form), [background_info |-> Str("bg1")])

\* C17: a partial_result gives every profile section of its payload the
\* payload's value and leaves the other sections as they are (so of two
\* partial results carrying a section the later one decides).
ProfileSections == DOMAIN EmptyStreamingResult \ {"isComplete"}

PartialMergesShallowly ==
  [][\A fr \in StreamFrames :
       (fr.type = "partial_result" /\ OnMessage(1, fr))
       => \A f \in ProfileSections \cup DOMAIN fr.data :
            IF f \in DOMAIN fr.data
            THEN streamingResult'[f] = fr.data[f]
            ELSE streamingResult'[f] = streamingResult[f]]_vars

\* C17 witness: the payload {bg2, lead1} and then the payload {bg1} were
\* applied: the background is the later bg1, the leadership is still lead1.
LaterPartialWins ==
  /\ frames = 2
  /\ streamingResult.background_info = Str("bg1")
  /\ streamingResult.leadership_info = Str("lead1")
  /\ streamingResult.basic_info # Null

\* C18: a final_result merges its payload into the profile, sets isComplete,
\* ends loading and delivers the payload as result; error is the
\* limitations advisory when the execution summary lists a failed agent and
\* is cleared otherwise.
ListsFailedStage(data) ==
  /\ "execution_summary" \in DOMAIN data
  /\ "failed_agents" \in DOMAIN data.execution_summary
  /\ data.execution_summary.failed_agents # <<>>

FinalResultCompletes ==
  [][\A fr \in StreamFrames :
       (fr.type = "final_result" /\ OnMessage(1, fr))
       => /\ \A f \in DOMAIN fr.data : streamingResult'[f] = fr.data[f]
          /\ \A f \in ProfileSections \ DOMAIN fr.data :
               streamingResult'[f] = streamingResult[f]
          /\ streamingResult'.isComplete
          /\ ~loading'
          /\ result' = fr.data
          /\ IF ListsFailedStage(fr.data)
             THEN error' \in {ErrLimitedDefault, ErrLimitedMessage}
             ELSE error' = Null]_vars

\* C18 witness: a final result whose summary lists a failed agent arrived
\* after a partial result: the profile is complete, holds both, and the
\* advisory is shown.
LimitedFinalDelivered ==
  /\ frames = 2
  /\ streamingResult.isComplete
  /\ streamingResult.background_info = Str("bg1")
  /\ streamingResult.aggregated_profile = Str("partial")
  /\ result = LimitedProfile
  /\ error = ErrLimitedMessage
  /\ ~loading

\* C19: a plain result arriving as the first frame of a submission leaves the
\* state a final_result with the same payload would leave: result set, the
\* payload merged into the profile with isComplete, current stage cleared,
\* loading ended, error cleared, payload stored in the cache.
PlainResultIsFinalResult ==
  [][\A fr \in StreamFrames :
       (fr.type = "result" /\ frames = 0 /\ OnMessage(1, fr))
       => /\ final_result(fr.data)
          /\ streamingResult'.isComplete
          /\ streamingResult'.aggregated_profile = fr.data.aggregated_profile]_vars

\* C20: a message event whose text is not JSON, or whose type has no handler,
\* changes neither the profile, the stage state, the activity log, result,
\* error, loading nor wsState, and leaves the socket, the handlers' flag and
\* the cache as they are, so that the frames after it are handled as before.
IsDropped(fr) == ~fr.json \/ fr.type \notin HandlerTypes

DroppedFrames == {fr \in AllFrames : IsDropped(fr)}

UnhandledFrameDropped ==
  [][frames' # frames =>
       \A s \in DOMAIN sockets : \A fr \in DroppedFrames :
         OnMessage(s, fr)
         => /\ UNCHANGED <<streamingResult, currentNode, completedNodes, progress,
                           result, error, loading, wsState>>
            /\ UNCHANGED <<isSubscribed, wsRef, sockets, timers, localStorage, subs,
                           sent>>]_vars

\* C20 witness: of the two frames of a submission one was dropped and the
\* other, a progress frame, was logged.
DroppedAndHandled ==
  /\ frames = 2
  /\ Len(subs) = 1
  /\ isSubscribed
  /\ progress = <<LogText(Str("searching"))>>
  /\ streamingResult = ResetStreamingResult(subs[1].form)
  /\ currentNode = Null
  /\ completedNodes = <<>>
  /\ result = Null
  /\ error = Null
  /\ loading

\* C21: a submission whose key holds an item that is no JSON text, or that has
\* not exactly the members data and timestamp, gets no result from the cache
\* and no error of the cache: it sends its enrich frame over an open socket,
\* is refused while wsState is disconnected and waits otherwise, as a
\* submission that finds no item does, and the item is no hit afterwards.
Corrupt(item) == item # Null /\ DOMAIN item # {"data", "timestamp"}

CorruptEntryIsMiss ==
  [][(/\ Len(subs') > Len(subs)
      /\ Corrupt(getItem(localStorage, generateCacheKey(form))))
     => /\ result' = Null
        /\ ~isCacheHit'
        /\ subs'[Len(subs')].promise # "none"
        /\ IF readyStateOf(wsRef) = "OPEN"
           THEN /\ sent' = Append(sent, Enrich(Len(subs'), wsRef, form))
                /\ loading'
                /\ error' = Null
           ELSE IF wsState = "disconnected"
           THEN /\ sent' = sent
                /\ ~loading'
                /\ error' = ErrBackend
           ELSE /\ sent' = sent
                /\ loading'
                /\ error' = Null
                /\ Timer("poll", Len(subs'), POLL_INTERVAL) \in timers'
        /\ getItem(localStorage', generateCacheKey(form))
             \in {Null, getItem(localStorage, generateCacheKey(form))}]_vars

\* C21 witness: the submission found the text that is not JSON under its key
\* and its enrich frame went out; the text is still stored.
CorruptEntrySubmitted ==
  /\ Len(subs) = 1
  /\ getItem(localStorage, generateCacheKey(subs[1].form)) = [text |-> "{\"data\":"]
  /\ sent = <<Enrich(1, wsRef, subs[1].form)>>
  /\ loading
  /\ result = Null
  /\ error = Null

\* C22: the connection timer of a socket that is still opening, when it
\* fires, closes the socket, sets wsState to disconnected and shows the
\* backend-unreachable error; the open event cancels the timer, so that no
\* connection timer is pending for an open socket and a firing timer leaves
\* an open socket and wsState alone.
ConnectionTimers == {t \in timers : t.kind = "connection"}

ConnectionTimerClosesHalfOpen ==
  /\ [](\A t \in ConnectionTimers : sockets[t.owner].readyState # "OPEN")
  /\ [][\A t \in ConnectionTimers :
          ConnectionTimeout(t) =>
            /\ sockets[t.owner].readyState = "CONNECTING" =>
                 /\ sockets'[t.owner].readyState = "CLOSING"
                 /\ wsState' = "disconnected"
                 /\ error' = ErrBackend
            /\ \A s \in DOMAIN sockets :
                 sockets[s].readyState = "OPEN" =>
                   sockets'[s] = sockets[s] /\ wsState' = wsState]_vars
  /\ [][\A s \in DOMAIN sockets :
          OnOpen(s) => \A t \in timers' : ~(t.kind = "connection" /\ t.owner = s)]_vars

\* C22 witness: the timer of the second socket fired while the socket was
\* opening (a closing socket that never opened, before the cleanup); the
\* first socket had opened within its 5 s.
SecondSocketTimedOut ==
  /\ lifecycle = "mounted"
  /\ Len(sockets) = 2
  /\ sockets[1].opened
  /\ sockets[2] = [readyState |-> "CLOSING", opened |-> FALSE]
  /\ wsState = "disconnected"
  /\ error = ErrBackend
  /\ ConnectionTimers = {}

\* C23 as stated: a node_start for a stage leaves the stage running and
\* recorded as the current stage; a node_complete for a stage leaves it
\* completed.
StageEventsSetStatus ==
  [][\A fr \in StreamFrames :
       OnMessage(1, fr) =>
         /\ fr.type = "node_start" =>
              /\ currentNode' = [node |-> fr.data.node]
              /\ StageStatus(completedNodes', currentNode', fr.data.node) = "running"
         /\ fr.type = "node_complete" =>
              StageStatus(completedNodes', currentNode', fr.data.node) = "completed"]_vars

\* C23 amended: a node_start for a stage records it as the current stage and
\* leaves it running unless the stage has completed in this submission, in
\* which case it stays completed; a node_complete for a stage leaves it
\* completed, whichever stage is the current one.
StageEventsSetStatusUnlessCompleted ==
  [][\A fr \in StreamFrames :
       OnMessage(1, fr) =>
         /\ fr.type = "node_start" =>
              /\ currentNode' = [node |-> fr.data.node]
              /\ StageStatus(completedNodes', currentNode', fr.data.node) =
                   (IF Includes(completedNodes, fr.data.node)
                    THEN "completed" ELSE "running")
         /\ fr.type = "node_complete" =>
              /\ StageStatus(completedNodes', currentNode', fr.data.node) = "completed"
              /\ currentNode' = currentNode]_vars

\* C23 witness: the planner started, the background agent started, and the
\* planner completed while the background agent was the current stage.
CompletedWhileAnotherIsCurrent ==
  /\ progress = <<LogStart("planner_supervisor_node"),
                  LogStart("background_agent_node"),
                  LogCompleted("planner_supervisor_node")>>
  /\ StageStatus(completedNodes, currentNode, "planner_supervisor_node") = "completed"
  /\ StageStatus(completedNodes, currentNode, "background_agent_node") = "running"

\* A stage completed while it was the current stage.
CompletedWhileCurrent ==
  /\ progress = <<LogStart("planner_supervisor_node"),
                  LogCompleted("planner_supervisor_node")>>
  /\ currentNode = [node |-> "planner_supervisor_node"]
  /\ StageStatus(completedNodes, currentNode, "planner_supervisor_node") = "completed"

\* C24: a final or plain result stores its payload under the cache key of the
\* descriptor sent for the submission it answers, and a submission served
\* from the cache gets a payload that answered a submission with its own key.
SentFor(n) == {sent[i].data : i \in {j \in DOMAIN sent : sent[j].sub = n}}

EntryUnderSentKey ==
  [][/\ (frames' # frames /\ isSubscribed) =>
          \A s \in DOMAIN sockets : \A fr \in AnswerFrames :
            OnMessage(s, fr) =>
              \A d \in SentFor(fr.sub) :
                getItem(localStorage', generateCacheKey(d)) =
                  [data |-> fr.data, timestamp |-> now]
     /\ (Len(subs') > Len(subs) /\ isCacheHit') =>
          \E i \in DOMAIN subs :
            /\ generateCacheKey(subs[i].form) = generateCacheKey(form)
            /\ subs[i].answer = result']_vars

\* The second half of C24 on its own: the payload a cache hit returns.
HitReturnsOwnAnswer ==
  [][(Len(subs') > Len(subs) /\ isCacheHit') =>
       \E i \in DOMAIN subs :
         /\ generateCacheKey(subs[i].form) = generateCacheKey(form)
         /\ subs[i].answer = result']_vars

\* C25: a submission that misses the cache settles its wait (the timers
\* fire), and then either one enrich frame with its descriptor has been sent
\* over an open socket, or its wait was rejected, which showed a connection
\* error and ended loading and is never followed by a frame.
FramesOf(i) == {j \in DOMAIN sent : sent[j].sub = i}

PromiseOf(i) == IF i \in DOMAIN subs THEN subs[i].promise ELSE "unsubmitted"

OneOutcomePerMiss ==
  /\ [](\A i \in DOMAIN subs :
          /\ Cardinality(FramesOf(i)) <= 1
          /\ (FramesOf(i) # {}) <=> (subs[i].promise = "resolved")
          /\ \A j \in FramesOf(i) : sent[j].data = subs[i].form)
  /\ [][/\ sent' # sent =>
             /\ Len(sent') = Len(sent) + 1
             /\ sockets[sent'[Len(sent')].sock].readyState = "OPEN"
        /\ \A i \in DOMAIN subs' :
             (/\ subs'[i].promise = "rejected"
              /\ i \in DOMAIN subs => subs[i].promise # "rejected")
             => /\ error' \in {ErrBackend, ErrTimedOut}
                /\ ~loading'
                /\ sent' = sent
        /\ \A i \in DOMAIN subs :
             subs[i].promise \in {"resolved", "rejected", "none"}
             => subs'[i].promise = subs[i].promise]_vars
  /\ \A i \in 1..MaxSubmits :
       (PromiseOf(i) = "pending") ~> (PromiseOf(i) \in {"resolved", "rejected"})

\* C25 witness: the wait of a submission made while the socket was opening
\* was rejected by its timeout, the socket opened afterwards and the poll ran
\* on the open socket: no frame was sent.
OpenedAfterWaitTimedOut ==
  /\ Len(subs) = 1
  /\ subs[1].wsState = "connecting"
  /\ subs[1].promise = "rejected"
  /\ readyStateOf(wsRef) = "OPEN"
  /\ \A t \in timers : t.kind \notin {"poll", "waitTimeout"}
  /\ sent = <<>>
  /\ ~loading

\* The other outcome: the socket opened during the wait and the poll sent the
\* frame.
SentAfterWait ==
  /\ Len(subs) = 1
  /\ subs[1].wsState = "connecting"
  /\ subs[1].promise = "resolved"
  /\ sent = <<Enrich(1, wsRef, subs[1].form)>>
  /\ loading

\* C26: a node_start for a stage leaves the status of every other stage as
\* it is; a stage that is running stays running.
StageStartLeavesOthers ==
  [][\A fr \in StreamFrames :
       (fr.type = "node_start" /\ OnMessage(1, fr))
       => \A x \in Nodes \ {fr.data.node} :
            StageStatus(completedNodes', currentNode', x) =
              StageStatus(completedNodes, currentNode, x)]_vars

\* C27: once the wait of a submission is resolved or rejected, its
\* checkConnection re-arms no poll, and its timeout, when it fires, changes
\* nothing but the set of pending timers.
Settled(i) == subs[i].promise \in {"resolved", "rejected"}

SettledWaitPollsNoMore ==
  [][/\ \A i \in DOMAIN subs : Settled(i) => subs'[i].polls = subs[i].polls
     /\ \A t \in timers :
          (t.kind = "waitTimeout" /\ Settled(t.owner) /\ WaitTimeout(t))
          => UNCHANGED <<subs, sent, error, loading, result, wsState>>]_vars

\* The timeout of a wait that was resolved by a poll fired later and changed
\* nothing.
TimeoutAfterResolved ==
  /\ Len(subs) = 1
  /\ subs[1].wsState = "connecting"
  /\ subs[1].promise = "resolved"
  /\ \A t \in timers : t.kind \notin {"poll", "waitTimeout"}
  /\ loading
  /\ error = Null

\* C28: at most one reconnect timer is pending, none while a socket is open
\* or opening, and a pending connection timer belongs to a socket that is
\* still opening.
ReconnectTimers == {t \in timers : t.kind = "reconnect"}

TimersFollowSockets ==
  /\ Cardinality(ReconnectTimers) <= 1
  /\ ReconnectTimers # {} => LiveSockets = {}
  /\ \A t \in timers :
       t.kind = "connection" => sockets[t.owner].readyState = "CONNECTING"

\* C28 witness: the second socket was lost while it was opening: its
\* connection timer is cancelled, one reconnect timer is pending and no
\* socket is open or opening.
ReconnectArmedAfterSecondLoss ==
  /\ Len(sockets) = 2
  /\ sockets[2] = [readyState |-> "CLOSED", opened |-> FALSE]
  /\ ReconnectTimers = {Timer("reconnect", 2, reconnectDelay(reconnectAttemptsRef))}
  /\ \A t \in timers : t.kind # "connection"
  /\ LiveSockets = {}

\* C29 as stated: until the cleanup runs, wsState is connected exactly when
\* the stored socket is open, and wsRef is null only when wsState is
\* disconnected.
StateFollowsHandle ==
  lifecycle # "unmounted" =>
    /\ (wsState = "connected") <=> (readyStateOf(wsRef) = "OPEN")
    /\ wsRef = 0 => wsState = "disconnected"

\* C29 amended: until the cleanup runs, wsState is connected exactly when the
\* stored socket has opened and its close event has not been dispatched (it
\* is open or in its closing handshake), and wsRef is null only when wsState
\* is disconnected.
StateFollowsHandleUntilClosed ==
  lifecycle # "unmounted" =>
    /\ (wsState = "connected") <=> (/\ wsRef # 0
                                    /\ sockets[wsRef].opened
                                    /\ readyStateOf(wsRef) \in {"OPEN", "CLOSING"})
    /\ wsRef = 0 => wsState = "disconnected"

\* C29 witness: the second socket, opened after the first was lost, is in
\* the closing handshake the server started; wsState still says connected.
ConnectedWhileClosing ==
  /\ lifecycle = "mounted"
  /\ wsRef = 2
  /\ sockets[1].readyState = "CLOSED"
  /\ sockets[2] = [readyState |-> "CLOSING", opened |-> TRUE]
  /\ wsState = "connected"

\* C30: once the cleanup has run, a message event of any type delivered on
\* the socket it closed leaves the profile, the stage state, the activity
\* log, result, error and loading as they are and writes nothing to the cache.
FramesIgnoredAfterTeardown ==
  [][(lifecycle = "unmounted" /\ frames' # frames) =>
       /\ \E s \in DOMAIN sockets : \E fr \in AllFrames : OnMessage(s, fr)
       /\ UNCHANGED <<streamingResult, currentNode, completedNodes, progress,
                      result, error, loading, localStorage>>]_vars

\* C30 witness: the final result of the only submission arrived on the
\* closing socket after the cleanup: nothing was stored and result, loading
\* and the profile are those the submission left.
AnswerAfterTeardown ==
  /\ lifecycle = "unmounted"
  /\ Len(subs) = 1
  /\ subs[1].answer = LimitedProfile
  /\ frames = 1
  /\ result = Null
  /\ loading
  /\ error = Null
  /\ localStorage = <<>>
  /\ streamingResult = ResetStreamingResult(subs[1].form)

====
